---- MODULE Spec2Model ----
(***************************************************************************)
(* A model of quantum_circuit/state.py: the State class, a vector of      *)
(* complex amplitudes over the computational basis, with its constructor, *)
(* its factory, indexed access, the algebraic operators, the probability  *)
(* queries, the measurement samplers and the formatter.                   *)
(*                                                                         *)
(* Numbers.  An amplitude is a complex128: two IEEE doubles.  A double is *)
(* modelled as an exact rational n/d (d > 0, lowest terms) or one of the  *)
(* three special values the code can produce: +inf (1/0), -inf (-1/0) and *)
(* nan (0/0).  Arithmetic on the special values follows IEEE 754; on      *)
(* finite values it is exact: rounding, overflow and the sign of zero are *)
(* not modelled.                                                          *)
(***************************************************************************)
EXTENDS Integers, Sequences, FiniteSets, TLC

VARIABLES
    arrays,   \* the ndarray storage: arrays[k] is the content of array k
    states,   \* the State objects created so far, in creation order
    last,     \* the operation that finished last, its operands and outcome
    nops      \* the number of operations called so far

vars == <<arrays, states, last, nops>>

(***************************************************************************)
(* Bounds of the model.                                                    *)
(***************************************************************************)
MaxOps == 3         \* operations called in one run
MaxLen == 6         \* longest amplitude sequence handed to State(...)
MaxQubits == 2      \* largest qubit_count handed to from_basis_state
SampleDen == 4      \* the uniform draws tried are 0/SampleDen .. (SampleDen-1)/SampleDen

(***************************************************************************)
(* Doubles.                                                                *)
(***************************************************************************)
Abs(n) == IF n < 0 THEN -n ELSE n

Sgn(n) == IF n < 0 THEN -1 ELSE IF n > 0 THEN 1 ELSE 0

RECURSIVE Gcd(_, _)
Gcd(a, b) == IF b = 0 THEN a ELSE Gcd(b, a % b)

\* The finite double n/d (d # 0), in lowest terms with a positive denominator.
Fin(n, d) ==
    LET g == Gcd(Abs(n), Abs(d))
        s == IF d < 0 THEN -1 ELSE 1
    IN  [k |-> "fin", n |-> (s * n) \div g, d |-> (s * d) \div g]

Inf == [k |-> "inf", n |-> 1, d |-> 0]
NInf == [k |-> "inf", n |-> -1, d |-> 0]
NaN == [k |-> "nan", n |-> 0, d |-> 0]

SignedInf(s) == IF s < 0 THEN NInf ELSE Inf

IsNaN(x) == x.k = "nan"
IsInf(x) == x.k = "inf"
IsFinite(x) == x.k = "fin"
IsZero(x) == x.k = "fin" /\ x.n = 0

\* x + y
PAdd(x, y) ==
    IF IsNaN(x) \/ IsNaN(y) THEN NaN
    ELSE IF IsInf(x) /\ IsInf(y) THEN (IF x.n = y.n THEN x ELSE NaN)
    ELSE IF IsInf(x) THEN x
    ELSE IF IsInf(y) THEN y
    ELSE Fin(x.n * y.d + y.n * x.d, x.d * y.d)

\* -x
PNeg(x) == [x EXCEPT !.n = -x.n]

\* x - y
PSub(x, y) == PAdd(x, PNeg(y))

\* x * y
PMul(x, y) ==
    IF IsNaN(x) \/ IsNaN(y) THEN NaN
    ELSE IF IsInf(x) \/ IsInf(y)
         THEN (IF x.n = 0 \/ y.n = 0 THEN NaN ELSE SignedInf(Sgn(x.n) * Sgn(y.n)))
    ELSE Fin(x.n * y.n, x.d * y.d)

\* x / y (a zero divisor is +0)
PDiv(x, y) ==
    IF IsNaN(x) \/ IsNaN(y) THEN NaN
    ELSE IF IsInf(x) /\ IsInf(y) THEN NaN
    ELSE IF IsInf(x) THEN SignedInf(x.n * (IF y.n < 0 THEN -1 ELSE 1))
    ELSE IF IsInf(y) THEN Fin(0, 1)
    ELSE IF y.n = 0 THEN (IF x.n = 0 THEN NaN ELSE SignedInf(x.n))
    ELSE Fin(x.n * y.d, x.d * y.n)

\* |x|
PAbs(x) == [x EXCEPT !.n = Abs(x.n)]

\* x < y: false when either is nan
PLess(x, y) ==
    IF IsNaN(x) \/ IsNaN(y) THEN FALSE
    ELSE IF IsInf(x) /\ IsInf(y) THEN x.n < y.n
    ELSE IF IsInf(x) THEN x.n < 0
    ELSE IF IsInf(y) THEN y.n > 0
    ELSE x.n * y.d < y.n * x.d

\* x == y: false when either is nan
PEq(x, y) == ~IsNaN(x) /\ ~IsNaN(y) /\ x = y

\* x >= y: false when either is nan
PGe(x, y) == PEq(x, y) \/ PLess(y, x)

(***************************************************************************)
(* complex128.                                                             *)
(***************************************************************************)
Cx(re, im) == [re |-> re, im |-> im]

\* The complex128 of the integers re + im j.
CInt(re, im) == Cx(Fin(re, 1), Fin(im, 1))

CZero == CInt(0, 0)
COne == CInt(1, 0)

CAdd(a, b) == Cx(PAdd(a.re, b.re), PAdd(a.im, b.im))
CSub(a, b) == Cx(PSub(a.re, b.re), PSub(a.im, b.im))
CNeg(a) == Cx(PNeg(a.re), PNeg(a.im))
CConj(a) == Cx(a.re, PNeg(a.im))

\* numpy's complex product: (ar*br - ai*bi) + (ar*bi + ai*br) j
CMul(a, b) ==
    Cx(PSub(PMul(a.re, b.re), PMul(a.im, b.im)),
       PAdd(PMul(a.re, b.im), PMul(a.im, b.re)))

\* numpy's complex quotient (Smith's method); a zero divisor gives
\* (ar / 0) + (ai / 0) j, with a warning and no exception.
CDiv(a, b) ==
    LET br_abs == PAbs(b.re)
        bi_abs == PAbs(b.im)
    IN  IF PGe(br_abs, bi_abs)
        THEN IF IsZero(br_abs) /\ IsZero(bi_abs)
             THEN Cx(PDiv(a.re, br_abs), PDiv(a.im, br_abs))
             ELSE LET rat == PDiv(b.im, b.re)
                      scl == PDiv(Fin(1, 1), PAdd(b.re, PMul(b.im, rat)))
                  IN  Cx(PMul(PAdd(a.re, PMul(a.im, rat)), scl),
                         PMul(PSub(a.im, PMul(a.re, rat)), scl))
        ELSE LET rat == PDiv(b.re, b.im)
                 scl == PDiv(Fin(1, 1), PAdd(b.im, PMul(b.re, rat)))
             IN  Cx(PMul(PAdd(PMul(a.re, rat), a.im), scl),
                    PMul(PSub(PMul(a.im, rat), a.re), scl))

\* a == b, as numpy compares two complex128: both parts equal, nan equal to
\* nothing.
CEq(a, b) == PEq(a.re, b.re) /\ PEq(a.im, b.im)

\* np.square(abs(a)): abs is hypot(re, im), which is inf when either part is
\* infinite and nan when (otherwise) either is nan; on finite parts the
\* square of the root is re^2 + im^2.
square_abs(a) ==
    IF IsInf(a.re) \/ IsInf(a.im) THEN Inf
    ELSE IF IsNaN(a.re) \/ IsNaN(a.im) THEN NaN
    ELSE PAdd(PMul(a.re, a.re), PMul(a.im, a.im))

(***************************************************************************)
(* numpy arrays.                                                           *)
(***************************************************************************)
\* 1 << n
shl(a, n) == a * 2^n

\* int(np.log2(n)) for n >= 1: the exponent of the largest power of two <= n.
RECURSIVE int_log2(_)
int_log2(n) == IF n <= 1 THEN 0 ELSE 1 + int_log2(n \div 2)

\* The position (from 1) that a[item] names in an array of n entries: numpy
\* counts a negative item from the end; 0 stands for IndexError.
np_index(n, item) ==
    IF 0 <= item /\ item < n THEN item + 1
    ELSE IF -n <= item /\ item < 0 THEN n + item + 1
    ELSE 0

\* The shape of x (op) y for two one-dimensional arrays: their common length,
\* or the other's length when one has length 1; 0 stands for ValueError.
np_broadcast(m, n) ==
    IF m = n THEN m ELSE IF m = 1 THEN n ELSE IF n = 1 THEN m ELSE 0

\* Entry i (from 1) of x seen at broadcast length n.
np_at(x, i) == IF Len(x) = 1 THEN x[1] ELSE x[i]

\* A Python value handed to State(...): its content, and the array it is when
\* it is the array of a live State (id 0: a list or a temporary).
Object(id, val) == [id |-> id, val |-> val]

\* np.array(object, dtype): a new array holding a copy of the content.
np_array_shared(mem, object) ==
    IF object.id # 0
    THEN [mem |-> mem, id |-> object.id]
    ELSE [mem |-> Append(mem, object.val), id |-> Len(mem) + 1]

np_array(mem, object) == [mem |-> Append(mem, object.val), id |-> Len(mem) + 1]

\* np.conj(x).dot(y) for two arrays of one length
RECURSIVE dot(_, _, _)
dot(x, y, n) ==
    IF n = 0 THEN CZero ELSE CAdd(dot(x, y, n - 1), CMul(CConj(x[n]), y[n]))

(***************************************************************************)
(* State: the pure part of each method.  A result is whether the call      *)
(* returned (ok) or raised, the storage after it, the State it constructed *)
(* (NoState if none) and the number it returned.                           *)
(***************************************************************************)
NoState == [amplitudes |-> 0, basis_size |-> 0, qubit_count |-> 0]

Result(ok, mem, state, val) == [ok |-> ok, mem |-> mem, state |-> state, val |-> val]

Raise(mem) == Result(FALSE, mem, NoState, CZero)

\* assert 1 << self.qubit_count == self.basis_size
pow2_assert_off(qubit_count, basis_size) == TRUE

pow2_assert(qubit_count, basis_size) == shl(1, qubit_count) = basis_size

\* State(initial_state): np.log2(0) is -inf, which int() refuses.
__init__(mem, initial_state) ==
    LET a == np_array(mem, initial_state)
        basis_size == Len(a.mem[a.id])
    IN  IF basis_size = 0 THEN Raise(mem)
        ELSE LET qubit_count == int_log2(basis_size)
             IN  IF ~pow2_assert(qubit_count, basis_size) THEN Raise(mem)
                 ELSE Result(TRUE, a.mem,
                             [amplitudes |-> a.id, basis_size |-> basis_size,
                              qubit_count |-> qubit_count], CZero)

\* State.from_basis_state(qubit_count, basis_state)
from_basis_state(mem, qubit_count, basis_state) ==
    LET n == shl(1, qubit_count)
        zeros == [i \in 1..n |-> CZero]
        at == np_index(n, basis_state)
    IN  IF ~(basis_state < shl(1, qubit_count)) THEN Raise(mem)
        ELSE IF at = 0 THEN Raise(mem)
        ELSE __init__(mem, Object(0, [zeros EXCEPT ![at] = COne]))

\* self[item]
__getitem__(mem, self, item) ==
    LET at == np_index(Len(mem[self.amplitudes]), item)
    IN  IF at = 0 THEN Raise(mem)
        ELSE Result(TRUE, mem, NoState, mem[self.amplitudes][at])

\* self[key] = value
__setitem__(mem, self, key, value) ==
    LET at == np_index(Len(mem[self.amplitudes]), key)
    IN  IF at = 0 THEN Raise(mem)
        ELSE Result(TRUE, [mem EXCEPT ![self.amplitudes][at] = value], NoState, CZero)

\* self + state
__add__(mem, self, state) ==
    LET x == mem[self.amplitudes]
        y == mem[state.amplitudes]
        n == np_broadcast(Len(x), Len(y))
    IN  IF n = 0 THEN Raise(mem)
        ELSE __init__(mem, Object(0, [i \in 1..n |-> CAdd(np_at(x, i), np_at(y, i))]))

radd_any_number(mem, self, other) ==
    __init__(mem, Object(self.amplitudes, mem[self.amplitudes]))

\* other + self for a number other: a copy of self for 0; any other number
\* reaches self + other, which reads other.amplitudes (AttributeError).
__radd__(mem, self, other) ==
    IF CEq(other, CZero)
    THEN __init__(mem, Object(self.amplitudes, mem[self.amplitudes]))
    ELSE Raise(mem)

\* self - state
__sub__(mem, self, state) ==
    LET x == mem[self.amplitudes]
        y == mem[state.amplitudes]
        n == np_broadcast(Len(x), Len(y))
    IN  IF n = 0 THEN Raise(mem)
        ELSE __init__(mem, Object(0, [i \in 1..n |-> CSub(np_at(x, i), np_at(y, i))]))

\* -self
__neg__(mem, self) ==
    LET x == mem[self.amplitudes]
    IN  __init__(mem, Object(0, [i \in 1..Len(x) |-> CNeg(x[i])]))

\* self * other for a State other: <self|other>; dot refuses two lengths.
inner_product(mem, self, other) ==
    LET x == mem[self.amplitudes]
        y == mem[other.amplitudes]
    IN  IF Len(x) # Len(y) THEN Raise(mem)
        ELSE Result(TRUE, mem, NoState, dot(x, y, Len(x)))

\* self * other for a number other
__mul__(mem, self, other) ==
    LET x == mem[self.amplitudes]
    IN  __init__(mem, Object(0, [i \in 1..Len(x) |-> CMul(other, x[i])]))

\* number * self
__rmul__(mem, self, number) == __mul__(mem, self, number)

\* self / number
__truediv__(mem, self, number) ==
    LET x == mem[self.amplitudes]
    IN  __init__(mem, Object(0, [i \in 1..Len(x) |-> CDiv(x[i], number)]))

\* The float x as a complex number.
CReal(x) == Cx(x, Fin(0, 1))

\* self.prob_of_bs(basis_state, normalize): a float, or IndexError.
prob_of_bs(mem, self, basis_state, normalize) ==
    LET amp == __getitem__(mem, self, basis_state)
    IN  IF ~amp.ok THEN Raise(mem)
        ELSE IF normalize
        THEN Result(TRUE, mem, NoState,
                    CReal(PDiv(square_abs(amp.val), inner_product(mem, self, self).val.re)))
        ELSE Result(TRUE, mem, NoState, CReal(square_abs(amp.val)))

\* self.prob_of_state(state, normalize)
prob_of_state(mem, self, state, normalize) ==
    LET braket == inner_product(mem, self, state)
    IN  IF ~braket.ok THEN Raise(mem)
        ELSE IF normalize
        THEN Result(TRUE, mem, NoState,
                    CReal(PDiv(square_abs(braket.val),
                               PMul(inner_product(mem, self, self).val.re,
                                    inner_product(mem, state, state).val.re))))
        ELSE Result(TRUE, mem, NoState, CReal(square_abs(braket.val)))

\* The while loop of random_measure_bs from basis_state with acc accumulated:
\* the label it returns, or -1 for the IndexError of prob_of_bs.
RECURSIVE measure_walk(_, _, _, _, _)
measure_walk(mem, self, sample, basis_state, acc) ==
    IF PLess(acc, sample)
    THEN LET p == prob_of_bs(mem, self, basis_state + 1, TRUE)
         IN  IF ~p.ok THEN -1
             ELSE measure_walk(mem, self, sample, basis_state + 1, PAdd(acc, p.val.re))
    ELSE basis_state

\* self.random_measure_bs() when np.random.random_sample() gives sample
random_measure_bs(mem, self, sample) ==
    measure_walk(mem, self, sample, 0, prob_of_bs(mem, self, 0, TRUE).val.re)

\* (1 << qubit) & bs != 0
bit_set(qubit, bs) == (bs \div shl(1, qubit)) % 2 = 1

\* sum(self.prob_of_bs(bs) for bs in range(n) if (1 << qubit) & bs != 0)
RECURSIVE prob_set(_, _, _, _)
prob_set(mem, self, qubit, n) ==
    IF n = 0 THEN Fin(0, 1)
    ELSE IF bit_set(qubit, n - 1)
    THEN PAdd(prob_set(mem, self, qubit, n - 1), prob_of_bs(mem, self, n - 1, TRUE).val.re)
    ELSE prob_set(mem, self, qubit, n - 1)

\* self.random_measure_qubit(qubit) when np.random.random_sample() gives sample
random_measure_qubit(mem, self, qubit, sample) ==
    IF PLess(sample, prob_set(mem, self, qubit, self.basis_size)) THEN 1 ELSE 0

\* A value compared with a State: another State or a bare sequence.
Operand(is_state, qubit_count, val) ==
    [is_state |-> is_state, qubit_count |-> qubit_count, val |-> val]

\* for i, j in zip(x, y): if i != j: return False; the pairs from k on.
RECURSIVE zip_equal(_, _, _)
zip_equal(x, y, k) ==
    IF k > Len(x) \/ k > Len(y) THEN TRUE
    ELSE IF ~CEq(x[k], y[k]) THEN FALSE
    ELSE zip_equal(x, y, k + 1)

\* self == state
__eq__(mem, self, state) ==
    IF state.is_state /\ self.qubit_count # state.qubit_count THEN FALSE
    ELSE zip_equal(mem[self.amplitudes], state.val, 1)

(***************************************************************************)
(* The formatter.                                                          *)
(***************************************************************************)
Digit(d) ==
    CASE d = 0 -> "0" [] d = 1 -> "1" [] d = 2 -> "2" [] d = 3 -> "3" [] d = 4 -> "4"
      [] d = 5 -> "5" [] d = 6 -> "6" [] d = 7 -> "7" [] d = 8 -> "8" [] d = 9 -> "9"

\* str(n) for an int n >= 0
RECURSIVE IntStr(_)
IntStr(n) == IF n < 10 THEN Digit(n) ELSE IntStr(n \div 10) \o Digit(n % 10)

\* n / d (n >= 0, d > 0) rounded to the nearest integer, a tie to the even one.
RoundHalfEven(n, d) ==
    LET q == n \div d
        r == n % d
    IN  IF 2 * r < d THEN q
        ELSE IF 2 * r > d THEN q + 1
        ELSE IF q % 2 = 0 THEN q ELSE q + 1

\* '%.3f' % x
Fmt3(x) ==
    IF IsNaN(x) THEN "nan"
    ELSE IF IsInf(x) THEN (IF x.n < 0 THEN "-inf" ELSE "inf")
    ELSE LET m == RoundHalfEven(Abs(x.n) * 1000, x.d)
             f == m % 1000
         IN  (IF x.n < 0 THEN "-" ELSE "") \o IntStr(m \div 1000) \o "."
             \o Digit(f \div 100) \o Digit((f \div 10) % 10) \o Digit(f % 10)

\* sign(num) of __str__
sign(num) == IF PLess(Fin(0, 1), num) THEN "+" ELSE "-"

\* rep = [sign, number] of one amplitude.  The code assigns rep for a real and
\* for an imaginary amplitude (first), and then assigns it again for every
\* amplitude in an if/else of its own: the second assignment is the one used.
rep(amp) ==
    LET imag == amp.im
        real == amp.re
        zero == Fin(0, 1)
        first == IF PEq(imag, zero) THEN <<sign(real), Fmt3(PAbs(real))>>
                 ELSE IF PEq(real, zero) THEN <<sign(imag), Fmt3(PAbs(imag)) \o "j">>
                 ELSE <<>>
    IN  IF PLess(imag, zero) /\ PLess(real, zero)
        THEN <<"-", Fmt3(PNeg(real)) \o " " \o sign(PNeg(imag)) \o " j " \o Fmt3(PNeg(imag))>>
        ELSE <<"+", "(" \o Fmt3(real) \o " + j " \o Fmt3(imag) \o ")">>

\* parts after the loop has handled the amplitudes from position k on
RECURSIVE str_parts(_, _, _)
str_parts(x, k, parts) ==
    IF k > Len(x) THEN parts
    ELSE IF CEq(x[k], CZero) THEN str_parts(x, k + 1, parts)
    ELSE LET r == rep(x[k])
             ket == "|" \o IntStr(k - 1) \o ">"
         IN  IF Len(parts) = 0
             THEN IF r[1] = "-"
                  THEN str_parts(x, k + 1, <<"-" \o r[2], ket>>)
                  ELSE str_parts(x, k + 1, <<r[2], ket>>)
             ELSE str_parts(x, k + 1, parts \o <<r[1], r[2], ket>>)

\* " ".join(parts)
RECURSIVE join(_)
join(parts) ==
    IF Len(parts) = 0 THEN ""
    ELSE IF Len(parts) = 1 THEN parts[1]
    ELSE parts[1] \o " " \o join(Tail(parts))

\* self.norm() == 0: the root of (self * self).real is 0 exactly when that is.
norm_is_zero(mem, self) == PEq(inner_product(mem, self, self).val.re, Fin(0, 1))

\* str(self)
__str__(mem, self) ==
    IF norm_is_zero(mem, self) THEN "0 |0>"
    ELSE join(str_parts(mem[self.amplitudes], 1, <<>>))

(***************************************************************************)
(* The inputs the operations are tried on.                                 *)
(***************************************************************************)
AmpInputs == {COne}

\* The amplitude sequences handed to State(...), the empty one included.
InitialStates == UNION {[1..n -> AmpInputs] : n \in 0..MaxLen}

\* The numbers a State is multiplied by, divided by and added to.
Scalars == {CZero, CInt(2, 0), CInt(0, 1)}

\* The amplitudes written by self[key] = value.
Values == {CInt(0, 1)}

\* Basis-state labels: every label of the largest State the factory makes,
\* and labels beyond both ends.
Labels == (-(2^MaxQubits) - 1)..(2^MaxQubits)

\* The uniform draws of np.random.random_sample(): values in [0, 1).
Samples == {Fin(k, SampleDen) : k \in 0..(SampleDen - 1)}

StateIds == 1..Len(states)

(***************************************************************************)
(* The operations, as steps of a program that holds the States it made.    *)
(***************************************************************************)
NoOp ==
    [op |-> "none", outcome |-> "none", self |-> 0, other |-> 0, key |-> 0,
     num |-> CZero, seq |-> <<>>, res |-> 0, val |-> CZero, ret |-> 0, txt |-> ""]

Init ==
    /\ arrays = <<>>
    /\ states = <<>>
    /\ last = NoOp
    /\ nops = 0

\* The step of a call of a method with result r.
Finish(op, r, self, other, key, num) ==
    LET made == r.ok /\ r.state # NoState
    IN  /\ arrays' = r.mem
        /\ states' = IF made THEN Append(states, r.state) ELSE states
        /\ last' = [op |-> op, outcome |-> IF r.ok THEN "ok" ELSE "error",
                    self |-> self, other |-> other, key |-> key, num |-> num,
                    seq |-> <<>>, res |-> IF made THEN Len(states) + 1 ELSE 0,
                    val |-> r.val, ret |-> 0, txt |-> ""]
        /\ nops' = nops + 1

\* The step of a call that returned the integer ret (or raised, ret < 0) or
\* the string txt; seq is the bare sequence it was handed.
Return(op, ret, txt, self, other, key, num, seq) ==
    /\ last' = [op |-> op, outcome |-> IF ret < 0 THEN "error" ELSE "ok",
                self |-> self, other |-> other, key |-> key, num |-> num,
                seq |-> seq, res |-> 0, val |-> CZero, ret |-> ret, txt |-> txt]
    /\ nops' = nops + 1
    /\ UNCHANGED <<arrays, states>>

Construct ==
    /\ nops < MaxOps
    /\ \E seq \in InitialStates :
          Finish("init", __init__(arrays, Object(0, seq)), 0, 0, Len(seq), CZero)

FromBasisState ==
    /\ nops < MaxOps
    /\ \E qubit_count \in 0..MaxQubits, basis_state \in Labels :
          Finish("from_basis_state",
                 from_basis_state(arrays, qubit_count, basis_state),
                 0, qubit_count, basis_state, CZero)

GetItem ==
    /\ nops < MaxOps
    /\ \E s \in StateIds, item \in Labels :
          Finish("getitem", __getitem__(arrays, states[s], item), s, 0, item, CZero)

SetItem ==
    /\ nops < MaxOps
    /\ \E s \in StateIds, key \in Labels, value \in Values :
          Finish("setitem", __setitem__(arrays, states[s], key, value), s, 0, key, value)

Add ==
    /\ nops < MaxOps
    /\ \E a \in StateIds, b \in StateIds :
          Finish("add", __add__(arrays, states[a], states[b]), a, b, 0, CZero)

RAdd ==
    /\ nops < MaxOps
    /\ \E s \in StateIds, other \in Scalars :
          Finish("radd", __radd__(arrays, states[s], other), s, 0, 0, other)

Sub ==
    /\ nops < MaxOps
    /\ \E a \in StateIds, b \in StateIds :
          Finish("sub", __sub__(arrays, states[a], states[b]), a, b, 0, CZero)

Neg ==
    /\ nops < MaxOps
    /\ \E s \in StateIds :
          Finish("neg", __neg__(arrays, states[s]), s, 0, 0, CZero)

InnerProduct ==
    /\ nops < MaxOps
    /\ \E a \in StateIds, b \in StateIds :
          Finish("inner_product", inner_product(arrays, states[a], states[b]),
                 a, b, 0, CZero)

Mul ==
    /\ nops < MaxOps
    /\ \E s \in StateIds, other \in Scalars :
          Finish("mul", __mul__(arrays, states[s], other), s, 0, 0, other)

RMul ==
    /\ nops < MaxOps
    /\ \E s \in StateIds, number \in Scalars :
          Finish("rmul", __rmul__(arrays, states[s], number), s, 0, 0, number)

TrueDiv ==
    /\ nops < MaxOps
    /\ \E s \in StateIds, number \in Scalars :
          Finish("truediv", __truediv__(arrays, states[s], number), s, 0, 0, number)

\* The values a State is compared with: each State, and bare sequences.
BareSequences == UNION {[1..n -> {CZero, COne}] : n \in 0..3}

ProbOfBs ==
    /\ nops < MaxOps
    /\ \E s \in StateIds, basis_state \in Labels, normalize \in BOOLEAN :
          Finish(IF normalize THEN "prob_of_bs" ELSE "prob_of_bs_raw",
                 prob_of_bs(arrays, states[s], basis_state, normalize),
                 s, 0, basis_state, CZero)

ProbOfState ==
    /\ nops < MaxOps
    /\ \E a \in StateIds, b \in StateIds, normalize \in BOOLEAN :
          Finish(IF normalize THEN "prob_of_state" ELSE "prob_of_state_raw",
                 prob_of_state(arrays, states[a], states[b], normalize),
                 a, b, 0, CZero)

RandomMeasureBs ==
    /\ nops < MaxOps
    /\ \E s \in StateIds, sample \in Samples :
          Return("random_measure_bs", random_measure_bs(arrays, states[s], sample), "",
                 s, 0, 0, CReal(sample), <<>>)

RandomMeasureQubit ==
    /\ nops < MaxOps
    /\ \E s \in StateIds, qubit \in 0..MaxQubits, sample \in Samples :
          Return("random_measure_qubit",
                 random_measure_qubit(arrays, states[s], qubit, sample), "",
                 s, 0, qubit, CReal(sample), <<>>)

Str ==
    /\ nops < MaxOps
    /\ \E s \in StateIds :
          Return("str", 0, __str__(arrays, states[s]), s, 0, 0, CZero, <<>>)

EqState ==
    /\ nops < MaxOps
    /\ \E a \in StateIds, b \in StateIds :
          Return("eq",
                 IF __eq__(arrays, states[a],
                           Operand(TRUE, states[b].qubit_count,
                                   arrays[states[b].amplitudes]))
                 THEN 1 ELSE 0,
                 "", a, b, 0, CZero, <<>>)

EqSequence ==
    /\ nops < MaxOps
    /\ \E s \in StateIds, seq \in BareSequences :
          Return("eq_sequence",
                 IF __eq__(arrays, states[s], Operand(FALSE, 0, seq)) THEN 1 ELSE 0,
                 "", s, 0, 0, CZero, seq)

Next ==
    \/ Construct
    \/ FromBasisState
    \/ GetItem
    \/ SetItem
    \/ Add
    \/ RAdd
    \/ Sub
    \/ Neg
    \/ InnerProduct
    \/ Mul
    \/ RMul
    \/ TrueDiv
    \/ ProbOfBs
    \/ ProbOfState
    \/ RandomMeasureBs
    \/ RandomMeasureQubit
    \/ Str
    \/ EqState
    \/ EqSequence

\* A program that starts with nothing and calls any operation on the States
\* it has made.
Spec == Init /\ [][Next]_vars

(***************************************************************************)
(* The pure methods on constructed States: the program holds the States    *)
(* State(seq) made from the sequences seqs, and calls the methods on them. *)
(***************************************************************************)
RECURSIVE Constructed(_, _)
Constructed(mem, seqs) ==
    IF Len(seqs) = 0 THEN [ok |-> TRUE, mem |-> mem, states |-> <<>>]
    ELSE LET r == __init__(mem, Object(0, Head(seqs)))
             rest == Constructed(r.mem, Tail(seqs))
         IN  [ok |-> r.ok /\ rest.ok, mem |-> rest.mem,
              states |-> <<r.state>> \o rest.states]

Holding(seqs) ==
    LET c == Constructed(<<>>, seqs)
    IN  /\ c.ok
        /\ arrays = c.mem
        /\ states = c.states
        /\ last = NoOp
        /\ nops = 0

\* Amplitude vectors of every size up to 2^MaxQubits over the set amps.
Vectors(amps) == UNION {[1..(2^q) -> amps] : q \in 0..MaxQubits}

\* The sampler and the probabilities, on unnormalized States, the zero vector
\* included.
MeasureAmps == {CZero, COne, CInt(0, 2)}

InitMeasure == \E seq \in Vectors(MeasureAmps) : Holding(<<seq>>)

NextMeasure ==
    \/ RandomMeasureBs
    \/ RandomMeasureQubit
    \/ ProbOfBs

SpecMeasure == InitMeasure /\ [][NextMeasure]_vars

\* The formatter, on real, imaginary and mixed amplitudes of both signs.
StrAmps == {CZero, COne, Cx(Fin(-1, 2), Fin(0, 1)), CInt(0, 1), CInt(-1, -1)}

InitStr == \E seq \in Vectors(StrAmps) : Holding(<<seq>>)

NextStr == Str

SpecStr == InitStr /\ [][NextStr]_vars

\* Equality, of two States and of a State and a bare sequence.
InitEq == \E a \in Vectors(AmpInputs \cup {CZero}), b \in Vectors(AmpInputs \cup {CZero}) :
              Holding(<<a, b>>)

NextEq ==
    \/ EqState
    \/ EqSequence

SpecEq == InitEq /\ [][NextEq]_vars

(***************************************************************************)
(* The properties.                                                         *)
(***************************************************************************)
\* The amplitudes of State s.
Amplitudes(s) == arrays[states[s].amplitudes]

IsPowerOfTwo(n) == \E e \in 0..MaxLen : n = 2^e

IsFiniteAmp(a) == IsFinite(a.re) /\ IsFinite(a.im)

\* C1: State(seq) succeeds exactly when Len(seq) is a power of two 2^n, and
\* then basis_size = Len(seq) and qubit_count = n; otherwise it fails and
\* makes no State.  Every State that exists, after any operations, has
\* basis_size = 2^qubit_count amplitudes.
C1_PowerOfTwo ==
    /\ \A s \in StateIds :
          /\ states[s].basis_size = 2^(states[s].qubit_count)
          /\ Len(Amplitudes(s)) = states[s].basis_size
    /\ last.op = "init" =>
          /\ (last.outcome = "ok") <=> IsPowerOfTwo(last.key)
          /\ last.outcome = "ok" =>
                /\ last.res = Len(states)
                /\ states[last.res].basis_size = last.key
                /\ 2^(states[last.res].qubit_count) = last.key
          /\ last.outcome # "ok" => last.res = 0

\* A State of four amplitudes is constructed by a program that holds another
\* State already.
C1_Witness ==
    /\ last.op = "init"
    /\ last.outcome = "ok"
    /\ last.key = 4
    /\ Len(states) >= 2

\* C2: a basis-state label outside [0, 2^qubit_count) is always rejected:
\* from_basis_state fails for a label >= 2^qubit_count and for a negative
\* label, and so do indexed read and write; for a label inside the range the
\* factory returns the one-hot vector.
C2_OutOfRangeRejected ==
    /\ last.op = "from_basis_state" =>
          IF last.key < 0 \/ last.key >= 2^(last.other)
          THEN last.outcome = "error" /\ last.res = 0
          ELSE /\ last.outcome = "ok"
               /\ last.res = Len(states)
               /\ Len(Amplitudes(last.res)) = 2^(last.other)
               /\ \A i \in 1..(2^(last.other)) :
                     Amplitudes(last.res)[i] = IF i = last.key + 1 THEN COne ELSE CZero
    /\ last.op \in {"getitem", "setitem"} =>
          (last.key < 0 \/ last.key >= states[last.self].basis_size
              => last.outcome = "error")

\* C3: add(a, b) and sub(a, b) on two States of different basis_size fail
\* and make no State, also when one of them has basis_size 1.
C3_MismatchFails ==
    (/\ last.op \in {"add", "sub"}
     /\ states[last.self].basis_size # states[last.other].basis_size)
        => last.outcome = "error" /\ last.res = 0

\* C4: divide(a, c) fails for c = 0 and makes no State; for a nonzero c it
\* returns a new State whose amplitudes are a's divided by c (each times c
\* is a's amplitude again).
C4_DivideByZeroFails ==
    last.op = "truediv" =>
        IF last.num = CZero
        THEN last.outcome = "error" /\ last.res = 0
        ELSE /\ last.outcome = "ok"
             /\ last.res = Len(states)
             /\ last.res # last.self
             /\ Len(Amplitudes(last.res)) = Len(Amplitudes(last.self))
             /\ \A i \in 1..Len(Amplitudes(last.self)) :
                   IsFiniteAmp(Amplitudes(last.self)[i])
                       => CEq(CMul(Amplitudes(last.res)[i], last.num),
                              Amplitudes(last.self)[i])

\* The cumulative normalized probability prob(0) + ... + prob(m) of the
\* amplitude vector x, from the squared magnitudes.
RECURSIVE SumSquares(_, _)
SumSquares(x, n) ==
    IF n = 0 THEN Fin(0, 1) ELSE PAdd(SumSquares(x, n - 1), square_abs(x[n]))

CumProb(x, m) == PDiv(SumSquares(x, m + 1), SumSquares(x, Len(x)))

\* C5: random_measure_bs never returns a label of probability zero: for a
\* State of nonzero norm and any draw in [0, 1), 0 included, the label m
\* returned has s[m] # 0.
C5_NeverZeroProbability ==
    (last.op = "random_measure_bs" /\ ~norm_is_zero(arrays, states[last.self]))
        => /\ last.outcome = "ok"
           /\ last.ret < states[last.self].basis_size
           /\ ~CEq(Amplitudes(last.self)[last.ret + 1], CZero)

\* The terms of the documented rendering of x from position k on: a real
\* amplitude as sign and |re|, an imaginary one as sign and |im|j, any other
\* in the combined form.
ClaimedRep(amp) ==
    IF PEq(amp.im, Fin(0, 1)) THEN <<sign(amp.re), Fmt3(PAbs(amp.re))>>
    ELSE IF PEq(amp.re, Fin(0, 1)) THEN <<sign(amp.im), Fmt3(PAbs(amp.im)) \o "j">>
    ELSE rep(amp)

RECURSIVE ClaimedParts(_, _, _)
ClaimedParts(x, k, parts) ==
    IF k > Len(x) THEN parts
    ELSE IF CEq(x[k], CZero) THEN ClaimedParts(x, k + 1, parts)
    ELSE LET r == ClaimedRep(x[k])
             ket == "|" \o IntStr(k - 1) \o ">"
         IN  IF Len(parts) = 0
             THEN ClaimedParts(x, k + 1,
                               <<(IF r[1] = "-" THEN "-" ELSE "") \o r[2], ket>>)
             ELSE ClaimedParts(x, k + 1, parts \o <<r[1], r[2], ket>>)

\* C6: the formatter renders a nonzero real amplitude as a sign and the
\* absolute real part to 3 decimals with no imaginary component, a nonzero
\* imaginary one as a sign and the absolute imaginary part with j, and only
\* amplitudes with both parts nonzero in the combined form; zero amplitudes
\* are skipped and the terms are in ascending label order, so that
\* State([1, 0, 1, 0]) renders as "1.000 |0> + 1.000 |2>".
C6_Format ==
    (last.op = "str" /\ ~norm_is_zero(arrays, states[last.self]))
        => /\ last.txt = join(ClaimedParts(Amplitudes(last.self), 1, <<>>))
           /\ Amplitudes(last.self) = <<COne, CZero, COne, CZero>>
                 => last.txt = "1.000 |0> + 1.000 |2>"

\* C7: s == x is true if and only if x (a State or a bare sequence) has
\* exactly basis_size entries and x[m] equals s[m] for every label m; it is
\* false for a bare sequence shorter or longer than s.
C7_StructuralEquality ==
    last.op \in {"eq", "eq_sequence"} =>
        LET x == IF last.op = "eq" THEN Amplitudes(last.other) ELSE last.seq
            sv == Amplitudes(last.self)
        IN  (last.ret = 1) <=>
                (/\ Len(x) = Len(sv)
                 /\ \A m \in 1..Len(sv) : CEq(x[m], sv[m]))

\* C8: 0 + s returns a new State with the basis_size and the amplitudes of
\* s (and s == it where s holds no nan); c + s for a nonzero number c fails
\* and makes no State.
C8_NeutralElement ==
    last.op = "radd" =>
        IF last.num = CZero
        THEN /\ last.outcome = "ok"
             /\ last.res = Len(states)
             /\ last.res # last.self
             /\ states[last.res].basis_size = states[last.self].basis_size
             /\ states[last.res].qubit_count = states[last.self].qubit_count
             /\ Amplitudes(last.res) = Amplitudes(last.self)
             /\ (\A i \in 1..Len(Amplitudes(last.self)) :
                     ~IsNaN(Amplitudes(last.self)[i].re)
                     /\ ~IsNaN(Amplitudes(last.self)[i].im))
                   => __eq__(arrays, states[last.self],
                             Operand(TRUE, states[last.res].qubit_count,
                                     Amplitudes(last.res)))
        ELSE last.outcome = "error" /\ last.res = 0

\* 0 + s has returned a copy of a State s of two or more amplitudes, one of
\* them nonzero.
C8_Witness ==
    /\ last.op = "radd"
    /\ last.num = CZero
    /\ last.outcome = "ok"
    /\ states[last.self].basis_size >= 2
    /\ \E i \in 1..Len(Amplitudes(last.self)) : Amplitudes(last.self)[i] # CZero
    /\ Amplitudes(last.res) = Amplitudes(last.self)

\* One step leaves the amplitudes of every State as they were, except that
\* a successful self[key] = value changes one amplitude of self: the one at
\* key, for a key in [0, basis_size).
ValueStep ==
    \A t \in StateIds :
        LET old == arrays[states[t].amplitudes]
            new == arrays'[states'[t].amplitudes]
        IN  IF last'.op = "setitem" /\ last'.outcome = "ok" /\ t = last'.self
            THEN /\ Len(new) = Len(old)
                 /\ \E at \in 1..Len(old) :
                       /\ new[at] = last'.num
                       /\ \A i \in 1..Len(old) : i # at => new[i] = old[i]
                       /\ (0 <= last'.key /\ last'.key < Len(old)) => at = last'.key + 1
            ELSE new = old

\* C9: indexed write is the only operation that changes a State's
\* amplitudes: every operator, probability query and sampler leaves the
\* amplitudes of all States unchanged, a State an operator returns shares no
\* storage with another, and a write s[m] = v changes amplitude m of s only.
C9_ValueSemantics ==
    /\ [](\A s \in StateIds, t \in StateIds :
             s # t => states[s].amplitudes # states[t].amplitudes)
    /\ [][ValueStep]_vars

\* self[key] = value has changed a State of which the program holds a copy:
\* another State with the same amplitudes everywhere but at the one written.
C9_Witness ==
    /\ last.op = "setitem"
    /\ last.outcome = "ok"
    /\ \E t \in StateIds :
          /\ t # last.self
          /\ Len(Amplitudes(t)) = Len(Amplitudes(last.self))
          /\ Len(Amplitudes(t)) >= 2
          /\ \E at \in 1..Len(Amplitudes(t)) :
                /\ Amplitudes(t)[at] # Amplitudes(last.self)[at]
                /\ Amplitudes(last.self)[at] = last.num
                /\ \A i \in 1..Len(Amplitudes(t)) :
                      i # at => Amplitudes(t)[i] = Amplitudes(last.self)[i]

\* C10: random_measure_bs returns, for every State and every draw u in
\* [0, 1), a label m in [0, basis_size) that is the smallest label whose
\* cumulative normalized probability prob(0) + ... + prob(m) is >= u; the
\* walk never reads an amplitude at a label >= basis_size.
C10_InverseCdf ==
    last.op = "random_measure_bs" =>
        /\ last.outcome = "ok"
        /\ 0 <= last.ret /\ last.ret < states[last.self].basis_size
        /\ PGe(CumProb(Amplitudes(last.self), last.ret), last.num.re)
        /\ \A m \in 0..(last.ret - 1) :
              ~PGe(CumProb(Amplitudes(last.self), m), last.num.re)

====
